---- MODULE Spec2Model ----
(***************************************************************************)
(* Task-management REST backend (src/backend/server.js): the user, task    *)
(* and project collections, the JWT auth middleware and the route          *)
(* handlers, as a state machine.  One action per route handler; a handler  *)
(* whose awaits other requests can interleave with (register, task list)   *)
(* is split at those awaits.                                               *)
(*                                                                         *)
(* Strings are sequences of one-character strings, so that trim,           *)
(* lowercase and length are computed.  Time is counted in hours.           *)
(***************************************************************************)
EXTENDS Integers, Sequences, FiniteSets, Bags, TLC

VARIABLES
    users,      \* the User collection: sequence of documents, _id = index
    tasks,      \* the Task collection: set of documents
    projects,   \* the Project collection: set of documents
    nextId,     \* next fresh _id for a task or project document
    held,       \* the token the client holds: the last one issued to it
    now,        \* the server clock, in hours
    pending,    \* handlers suspended at an await: a bag of continuations
    res,        \* the response sent last, at the present time
    limiter,    \* the rate limiter's store and its clock, in minutes
    twin,       \* the first of two runs of one request, for comparing them
    app         \* the front end: localStorage, the AuthProvider and its call

vars == <<users, tasks, projects, nextId, held, now, pending, res, limiter, twin, app>>

(***************************************************************************)
(* Bounds of the model.                                                    *)
(***************************************************************************)
MaxUsers == 2
MaxDocs == 2
MaxApiDocs == 1
MaxPending == 2
MaxTime == 32
TickHours == 16
MaxInc == 1
MaxSeed == 16
MaxPage == 4
SeedHours == 8
MaxOver == 1
MaxDashboards == 1
MaxQuietHits == 2
TickMinutes == 5
MaxMinutes == 20

(***************************************************************************)
(* Program constants.                                                      *)
(***************************************************************************)
MinPasswordLength == 6
TokenLifetime == 24
WindowMinutes == 15
RateLimitMax == 100

(***************************************************************************)
(* Strings.                                                                *)
(***************************************************************************)
RECURSIVE trimStart(_)
trimStart(s) ==
    IF s # <<>> /\ Head(s) = " " THEN trimStart(Tail(s)) ELSE s

RECURSIVE trimEnd(_)
trimEnd(s) ==
    IF s # <<>> /\ s[Len(s)] = " " THEN trimEnd(SubSeq(s, 1, Len(s) - 1)) ELSE s

\* schema option trim: true
trim(s) == trimEnd(trimStart(s))

lowerChar(c) ==
    CASE c = "A" -> "a"
      [] c = "L" -> "l"
      [] c = "X" -> "x"
      [] OTHER -> c

RECURSIVE toLowerCase(_)
\* schema option lowercase: true
toLowerCase(s) ==
    IF s = <<>> THEN <<>> ELSE <<lowerChar(Head(s))>> \o toLowerCase(Tail(s))

\* JavaScript truthiness of a string-valued body field (missing or '')
Falsy(s) == s = <<>>

(***************************************************************************)
(* Inputs.                                                                 *)
(***************************************************************************)
GoodPassword == <<"s", "e", "c", "r", "e", "t">>
OtherPassword == <<"h", "u", "n", "t", "e", "r", "2">>
ShortPassword == <<"s", "h", "o", "r", "t">>
FirstName == <<"A", "n", "n">>
LastName == <<"L", "e", "e">>

\* a Date field that is not set
NoDate == -1
\* req.user when no identity was attached
NoUser == [userId |-> 0, username |-> <<>>]
\* the null a query resolves to when no document matches
NoDoc == [_id |-> 0]

Range(f) == { f[i] : i \in DOMAIN f }

(***************************************************************************)
(* bcrypt.                                                                 *)
(***************************************************************************)
\* bcrypt.hash(password, 12): one-way, never the plaintext itself
bcryptHash(password) == <<"$2a$12$">> \o password

bcryptCompare(password, hash) == hash = bcryptHash(password)

(***************************************************************************)
(* jsonwebtoken.                                                           *)
(***************************************************************************)
NoToken ==
    [userId |-> 0, username |-> <<>>, iat |-> 0, exp |-> 0, sig |-> "none"]

\* a token signed with an expiry far beyond the 24 hours
jwtSign_NoExpiry(user, t) ==
    [userId |-> user._id, username |-> user.username,
     iat |-> t, exp |-> t + 100 * TokenLifetime, sig |-> "JWT_SECRET"]

\* jwt.sign({ userId, username }, JWT_SECRET, { expiresIn: '24h' })
jwtSign(user, t) ==
    [userId |-> user._id, username |-> user.username,
     iat |-> t, exp |-> t + TokenLifetime, sig |-> "JWT_SECRET"]

\* jwt.verify(token, JWT_SECRET): the signature is ours and the token unexpired
jwtVerify(token, t) ==
    /\ token.sig = "JWT_SECRET"
    /\ t < token.exp

(***************************************************************************)
(* Responses.  ran: the route handler was entered; thrown: the exception   *)
(* raised inside it; via: who sent the response; presented: the token of   *)
(* the authorization header; issued: the token in the body; users: every   *)
(* user object in the body; tasks, total: the task list and its count;     *)
(* docId: the _id of the document in the body; totalPages: that of a task  *)
(* listing; summary, charts: those of the dashboard; client: the address   *)
(* the rate limiter counted the request for.                               *)
(***************************************************************************)
NoError == [name |-> "", code |-> 0, key |-> ""]
ValidationError == [name |-> "ValidationError", code |-> 0, key |-> ""]
DuplicateKey(key) == [name |-> "MongoServerError", code |-> 11000, key |-> key]
TypeError == [name |-> "TypeError", code |-> 0, key |-> ""]
CastError == [name |-> "CastError", code |-> 0, key |-> "_id"]

Response(route) ==
    [route |-> route, status |-> 0, error |-> "", field |-> "",
     thrown |-> NoError, via |-> "route", ran |-> FALSE,
     presented |-> NoToken, issued |-> NoToken,
     users |-> {}, tasks |-> <<>>, total |-> 0, query |-> <<>>, docId |-> 0,
     totalPages |-> 0, summary |-> <<>>, charts |-> <<>>, client |-> ""]

\* res.status(code).json({ error })
Fail(route, code, error) ==
    [Response(route) EXCEPT !.status = code, !.error = error, !.ran = TRUE]

\* the catch block of a route: the exception is logged and answered 500
Caught(route, error, err) ==
    [Fail(route, 500, error) EXCEPT !.thrown = err, !.via = "catch"]

(***************************************************************************)
(* Error handling middleware.                                              *)
(***************************************************************************)
errorHandler(route, err) ==
    IF err.name = "ValidationError"
    THEN [Fail(route, 400, "Validation Error") EXCEPT
              !.thrown = err, !.via = "errorHandler"]
    ELSE IF err.code = 11000
    THEN [Fail(route, 400, "Duplicate entry") EXCEPT
              !.thrown = err, !.field = err.key, !.via = "errorHandler"]
    ELSE [Fail(route, 500, "Internal server error") EXCEPT
              !.thrown = err, !.via = "errorHandler"]

(***************************************************************************)
(* Rate limiting: app.use(limiter), ahead of every route.  The memory      *)
(* store counts the requests of each client address and forgets its        *)
(* counts when a window ends.  passed: for each client, the window of its  *)
(* last request handed on and the number handed on in that window.         *)
(***************************************************************************)
Clients == {"c1", "c2"}

LimitedRoutes == {"GET /api/health", "POST /api/auth/login", "GET /api/tasks"}

NoHits ==
    [clock |-> 0,
     hits |-> [c \in Clients |-> 0],
     passed |-> [c \in Clients |-> [window |-> 0, count |-> 0]]]

\* a limiter that never rejects
OverLimit_Never(totalHits) == FALSE

\* totalHits > max
OverLimit(totalHits) == totalHits > RateLimitMax

\* the limiter serving a request of client c: it is counted, then rejected
\* with 429 or handed on to the next middleware
Limiter(c, route) ==
    LET totalHits == limiter.hits[c] + 1
        window == limiter.clock \div WindowMinutes
        before == limiter.passed[c]
    IN  /\ totalHits <= RateLimitMax + MaxOver
        /\ c # "c1" => totalHits <= MaxQuietHits
        /\ IF OverLimit(totalHits)
           THEN /\ limiter' = [limiter EXCEPT !.hits[c] = totalHits]
                /\ res' = [Response(route) EXCEPT
                               !.status = 429, !.via = "limiter", !.client = c,
                               !.error = "Too many requests, please try again later."]
           ELSE /\ limiter' = [limiter EXCEPT
                                   !.hits[c] = totalHits,
                                   !.passed[c] =
                                       IF before.window = window
                                       THEN [before EXCEPT !.count = @ + 1]
                                       ELSE [window |-> window, count |-> 1]]
                /\ res' = [Response(route) EXCEPT !.via = "next", !.client = c]
        /\ UNCHANGED <<users, tasks, projects, nextId, held, now, pending, twin, app>>

\* time passes; the store's timer fires at the end of a window
LimiterTick ==
    LET t == limiter.clock + TickMinutes IN
    /\ t <= MaxMinutes
    /\ limiter' = [limiter EXCEPT
                       !.clock = t,
                       !.hits = IF t \div WindowMinutes > limiter.clock \div WindowMinutes
                                THEN [c \in Clients |-> 0] ELSE @]
    /\ res' = Response("none")
    /\ UNCHANGED <<users, tasks, projects, nextId, held, now, pending, twin, app>>

\* no comparison of two runs is under way
NoTwin == [phase |-> 0, op |-> <<>>, before |-> <<>>, first |-> <<>>, second |-> <<>>]

\* no call of the front end is in flight
NoCall ==
    [kind |-> "none", stage |-> "none", body |-> <<>>, token |-> NoToken,
     ok |-> FALSE, data |-> [token |-> NoToken, user |-> NoDoc]]

\* the front end before its first render: useState(null), useState(true),
\* nothing in localStorage, the effect of AuthProvider not yet run, the form
\* not submitting
NoApp ==
    [mounted |-> FALSE, token |-> NoToken, user |-> NoDoc, loading |-> TRUE,
     submitting |-> FALSE, call |-> NoCall]

\* the request is within the limit of the limiter, whose counts are followed
\* in SpecLimit only, is not one of two runs compared, and is not sent by the
\* front end
Beside == UNCHANGED <<limiter, twin, app>>

(***************************************************************************)
(* The User collection.                                                    *)
(***************************************************************************)
\* new User({ username, email, password, firstName, lastName }): the schema's
\* setters and defaults
\* a user built from the whole body, its role field with it
NewUser_BodyRole(id, b, hashedPassword) ==
    [_id |-> id,
     username |-> trim(b.username),
     email |-> toLowerCase(b.email),
     password |-> hashedPassword,
     firstName |-> trim(b.firstName),
     lastName |-> trim(b.lastName),
     role |-> IF "role" \in DOMAIN b THEN b.role ELSE "user",
     isActive |-> TRUE,
     lastLogin |-> NoDate]

NewUser(id, b, hashedPassword) ==
    [_id |-> id,
     username |-> trim(b.username),
     email |-> toLowerCase(b.email),
     password |-> hashedPassword,
     firstName |-> trim(b.firstName),
     lastName |-> trim(b.lastName),
     role |-> "user",
     isActive |-> TRUE,
     lastLogin |-> NoDate]

\* the schema's validators, run by save()
UserValid(u) ==
    /\ u.username # <<>>
    /\ u.email # <<>>
    /\ u.password # <<>> /\ Len(u.password) >= MinPasswordLength
    /\ u.firstName # <<>>
    /\ u.lastName # <<>>
    /\ u.role \in {"user", "admin", "manager"}

\* a collection without the unique indexes
UniqueViolation_None(u) == ""

\* the unique indexes of the collection: the key an insert of u collides on
UniqueViolation(u) ==
    IF \E v \in Range(users) : v.username = u.username THEN "username"
    ELSE IF \E v \in Range(users) : v.email = u.email THEN "email"
    ELSE ""

\* User.findOne({ $and: [{ email }, { username }] })
RegisterMatches_And(b) ==
    { v \in Range(users) :
        v.email = toLowerCase(b.email) /\ v.username = trim(b.username) }

\* User.findOne({ $or: [{ email }, { username }] }): the filter is cast by the
\* schema, the documents that match
RegisterMatches(b) ==
    { v \in Range(users) :
        v.email = toLowerCase(b.email) \/ v.username = trim(b.username) }

\* User.findOne({ $or: [{ username }, { email: username }] })
LoginMatches(name) ==
    { v \in Range(users) :
        v.username = trim(name) \/ v.email = toLowerCase(name) }

\* the user object of the register and login responses
UserBody(u, withLastLogin) ==
    LET f == {"_id", "username", "email", "firstName", "lastName", "role"}
             \cup (IF withLastLogin THEN {"lastLogin"} ELSE {})
    IN  [k \in f |-> u[k]]

(***************************************************************************)
(* POST /api/auth/register                                                 *)
(***************************************************************************)
RegisterBody(u, e, p, f) ==
    [username |-> u, email |-> e, password |-> p, firstName |-> f,
     lastName |-> LastName]

RegisterBodies ==
    { RegisterBody(<<"a", "l">>, <<"a", "@", "x">>, GoodPassword, FirstName),
      RegisterBody(<<" ", "a", "l">>, <<"A", "@", "x">>, GoodPassword, FirstName),
      RegisterBody(<<"b", "o">>, <<"a", "l">>, OtherPassword, FirstName),
      RegisterBody(<<"b", "o">>, <<"a", "@", "x">>, OtherPassword, FirstName),
      RegisterBody(<<"a", "l">>, <<"a", "l">>, OtherPassword, FirstName),
      RegisterBody(<<" ">>, <<"a", "@", "x">>, GoodPassword, FirstName),
      RegisterBody(<<"a", "l">>, <<"a", "@", "x">>, ShortPassword, FirstName),
      RegisterBody(<<"a", "l">>, <<"a", "@", "x">>, GoodPassword, <<>>) }

\* up to the await of User.findOne
RegisterLookup(b) ==
    LET route == "POST /api/auth/register" IN
    IF Falsy(b.username) \/ Falsy(b.email) \/ Falsy(b.password)
       \/ Falsy(b.firstName) \/ Falsy(b.lastName)
    THEN /\ res' = Fail(route, 400, "All fields are required")
         /\ UNCHANGED <<users, tasks, projects, nextId, held, now, pending>>
    ELSE IF Len(b.password) < MinPasswordLength
    THEN /\ res' = Fail(route, 400, "Password must be at least 6 characters")
         /\ UNCHANGED <<users, tasks, projects, nextId, held, now, pending>>
    ELSE IF RegisterMatches(b) # {}
    THEN /\ res' = Fail(route, 400, "User already exists")
         /\ UNCHANGED <<users, tasks, projects, nextId, held, now, pending>>
    ELSE /\ BagCardinality(pending) < MaxPending
         /\ pending' = pending (+) SetToBag({[op |-> "register", body |-> b]})
         /\ UNCHANGED <<users, tasks, projects, nextId, held, now, res>>

\* from the await of User.findOne to the response
RegisterSave(p) ==
    LET route == "POST /api/auth/register"
        b == p.body
        user == NewUser(Len(users) + 1, b, bcryptHash(b.password))
        key == UniqueViolation(user)
        token == jwtSign(user, now)
    IN
    /\ BagIn(p, pending) /\ p.op = "register"
    /\ pending' = pending (-) SetToBag({p})
    /\ IF ~UserValid(user)
       THEN /\ res' = Caught(route, "Registration failed", ValidationError)
            /\ UNCHANGED <<users, tasks, projects, nextId, held, now>>
       ELSE IF key # ""
       THEN /\ res' = Caught(route, "Registration failed", DuplicateKey(key))
            /\ UNCHANGED <<users, tasks, projects, nextId, held, now>>
       ELSE /\ Len(users) < MaxUsers
            /\ users' = Append(users, user)
            /\ held' = token
            /\ res' = [Response(route) EXCEPT
                           !.status = 201, !.ran = TRUE, !.issued = token,
                           !.users = {UserBody(user, FALSE)}, !.docId = user._id]
            /\ UNCHANGED <<tasks, projects, nextId, now>>

(***************************************************************************)
(* POST /api/auth/login                                                    *)
(***************************************************************************)
LoginBodies ==
    [username : { <<"a", "l">>, <<" ", "a", "l">>, <<"b", "o">>, <<"A", "@", "x">> },
     password : {GoodPassword, OtherPassword}]
    \cup { [username |-> <<>>, password |-> GoodPassword],
           [username |-> <<"a", "l">>, password |-> <<>>] }

\* the handler from the document findOne resolved to (NoDoc: null)
\* lastLogin stamped as soon as the user is found, before the password is
\* compared
LoginWith_StampFirst(b, user) ==
    LET route == "POST /api/auth/login"
        token == jwtSign(user, now)
        saved == [user EXCEPT !.lastLogin = now]
    IN
    IF user = NoDoc \/ ~user.isActive
    THEN /\ res' = Fail(route, 401, "Invalid credentials")
         /\ UNCHANGED <<users, tasks, projects, nextId, held, now, pending>>
    ELSE IF ~bcryptCompare(b.password, user.password)
    THEN /\ users' = [users EXCEPT ![user._id] = saved]
         /\ res' = Fail(route, 401, "Invalid credentials")
         /\ UNCHANGED <<tasks, projects, nextId, held, now, pending>>
    ELSE /\ users' = [users EXCEPT ![user._id] = saved]
         /\ held' = token
         /\ res' = [Response(route) EXCEPT
                        !.status = 200, !.ran = TRUE, !.issued = token,
                        !.users = {UserBody(saved, TRUE)}, !.docId = user._id]
         /\ UNCHANGED <<tasks, projects, nextId, now, pending>>

LoginWith(b, user) ==
    LET route == "POST /api/auth/login"
        token == jwtSign(user, now)
        saved == [user EXCEPT !.lastLogin = now]
    IN
    IF user = NoDoc \/ ~user.isActive
    THEN /\ res' = Fail(route, 401, "Invalid credentials")
         /\ UNCHANGED <<users, tasks, projects, nextId, held, now, pending>>
    ELSE IF ~bcryptCompare(b.password, user.password)
    THEN /\ res' = Fail(route, 401, "Invalid credentials")
         /\ UNCHANGED <<users, tasks, projects, nextId, held, now, pending>>
    ELSE /\ users' = [users EXCEPT ![user._id] = saved]
         /\ held' = token
         /\ res' = [Response(route) EXCEPT
                        !.status = 200, !.ran = TRUE, !.issued = token,
                        !.users = {UserBody(saved, TRUE)}, !.docId = user._id]
         /\ UNCHANGED <<tasks, projects, nextId, now, pending>>

\* findOne resolves to one of the documents that match: no sort is given
Login(b) ==
    LET route == "POST /api/auth/login" IN
    IF Falsy(b.username) \/ Falsy(b.password)
    THEN /\ res' = Fail(route, 400, "Username and password required")
         /\ UNCHANGED <<users, tasks, projects, nextId, held, now, pending>>
    ELSE IF LoginMatches(b.username) = {}
    THEN LoginWith(b, NoDoc)
    ELSE \E user \in LoginMatches(b.username) : LoginWith(b, user)

(***************************************************************************)
(* Authentication middleware.                                              *)
(***************************************************************************)
\* a token that does not parse, and a held token re-encoded with a later
\* expiry by someone without the secret
Malformed == [NoToken EXCEPT !.sig = "malformed"]
Tampered(t) == [t EXCEPT !.exp = t.exp + TokenLifetime, !.sig = "tampered"]

\* the authorization headers a client can send, split at ' '
Headers ==
    { <<>>, <<"Bearer">>, <<"Bearer", Malformed>> }
    \cup (IF held = NoToken THEN {}
          ELSE { <<"Bearer", held>>, <<"Bearer", Tampered(held)>> })

\* authHeader && authHeader.split(' ')[1]
BearerToken(authHeader) ==
    IF Len(authHeader) >= 2 THEN authHeader[2] ELSE NoToken

\* a 403 that does not return: the identity is left unset and next() runs
authenticateToken_FallThrough(authHeader, t) ==
    LET token == BearerToken(authHeader) IN
    IF token = NoToken
    THEN [status |-> 401, error |-> "Access token required",
          next |-> FALSE, user |-> NoUser]
    ELSE IF ~jwtVerify(token, t)
    THEN [status |-> 403, error |-> "Invalid or expired token",
          next |-> TRUE, user |-> NoUser]
    ELSE [status |-> 0, error |-> "", next |-> TRUE,
          user |-> [userId |-> token.userId, username |-> token.username]]

\* the 401 and 403 statuses exchanged
authenticateToken_Swapped(authHeader, t) ==
    LET token == BearerToken(authHeader) IN
    IF token = NoToken
    THEN [status |-> 403, error |-> "Invalid or expired token",
          next |-> FALSE, user |-> NoUser]
    ELSE IF ~jwtVerify(token, t)
    THEN [status |-> 401, error |-> "Access token required",
          next |-> FALSE, user |-> NoUser]
    ELSE [status |-> 0, error |-> "", next |-> TRUE,
          user |-> [userId |-> token.userId, username |-> token.username]]

\* the identity of the first user attached, whoever the token was issued to
authenticateToken_FirstUser(authHeader, t) ==
    LET token == BearerToken(authHeader) IN
    IF token = NoToken
    THEN [status |-> 401, error |-> "Access token required",
          next |-> FALSE, user |-> NoUser]
    ELSE IF ~jwtVerify(token, t)
    THEN [status |-> 403, error |-> "Invalid or expired token",
          next |-> FALSE, user |-> NoUser]
    ELSE [status |-> 0, error |-> "", next |-> TRUE,
          user |-> [userId |-> 1, username |-> token.username]]

\* status 0: nothing was sent and next() is called with req.user = user
authenticateToken(authHeader, t) ==
    LET token == BearerToken(authHeader) IN
    IF token = NoToken
    THEN [status |-> 401, error |-> "Access token required",
          next |-> FALSE, user |-> NoUser]
    ELSE IF ~jwtVerify(token, t)
    THEN [status |-> 403, error |-> "Invalid or expired token",
          next |-> FALSE, user |-> NoUser]
    ELSE [status |-> 0, error |-> "", next |-> TRUE,
          user |-> [userId |-> token.userId, username |-> token.username]]

\* the response of a protected route: the middleware's when it sent one (a
\* later send on the same response has no effect), else the handler's
Send(route, auth, authHeader, r) ==
    IF auth.status # 0
    THEN [Response(route) EXCEPT
              !.status = auth.status, !.error = auth.error, !.via = "auth",
              !.ran = auth.next, !.presented = BearerToken(authHeader)]
    ELSE [r EXCEPT !.presented = BearerToken(authHeader)]

\* the middleware answered and the handler is not entered
Rejected(route, auth, authHeader) ==
    /\ ~auth.next
    /\ res' = Send(route, auth, authHeader, Response(route))
    /\ UNCHANGED <<users, tasks, projects, nextId, held, now, pending>>

(***************************************************************************)
(* Documents and queries.                                                  *)
(***************************************************************************)
\* { ...a, ...b }
Spread(a, b) ==
    [k \in DOMAIN a \cup DOMAIN b |-> IF k \in DOMAIN b THEN b[k] ELSE a[k]]

Restrict(doc, fields) == [k \in DOMAIN doc \cap fields |-> doc[k]]

\* no projection: the whole document
SelectAll(doc) == doc

\* .select('-password')
SelectMinusPassword(doc) == Restrict(doc, DOMAIN doc \ {"password"})

\* .populate(path, fields): the referenced users, projected
Populate(refs, fields) ==
    { Restrict(users[i], fields \cup {"_id"}) : i \in refs \cap DOMAIN users }

Ref(doc, path) == IF path \in DOMAIN doc THEN {doc[path]} ELSE {}

NameFields == {"firstName", "lastName", "username"}

\* a document satisfies a filter
Matches(doc, filter) ==
    \A k \in DOMAIN filter : k \in DOMAIN doc /\ doc[k] = filter[k]

\* .sort({ createdAt: -1 }): the later insert (the larger _id) first among
\* documents created within the same hour
RECURSIVE SortByCreatedAtDesc(_)
SortByCreatedAtDesc(docs) ==
    IF docs = {} THEN <<>>
    ELSE LET first == CHOOSE d \in docs : \A e \in docs :
                          \/ d.createdAt > e.createdAt
                          \/ d.createdAt = e.createdAt /\ d._id >= e._id
         IN  <<first>> \o SortByCreatedAtDesc(docs \ {first})

\* the limit applied before the skip
Page_LimitFirst(list, skip, limit) ==
    LET first == IF limit = 0 \/ Len(list) < limit THEN list
                 ELSE SubSeq(list, 1, limit)
    IN  SubSeq(first, skip + 1, Len(first))

\* .limit(n).skip(k): the skip is applied first; a limit of 0 is no limit
Page(list, skip, limit) ==
    LET rest == SubSeq(list, skip + 1, Len(list))
    IN  IF limit = 0 THEN rest
        ELSE SubSeq(rest, 1, IF Len(rest) < limit THEN Len(rest) ELSE limit)

(***************************************************************************)
(* GET /api/users/profile, GET /api/users                                  *)
(***************************************************************************)
GetProfile(authHeader) ==
    LET route == "GET /api/users/profile"
        auth == authenticateToken(authHeader, now)
        id == auth.user.userId
    IN
    \/ Rejected(route, auth, authHeader)
    \/ /\ auth.next
       /\ res' = Send(route, auth, authHeader,
                    IF id \in DOMAIN users
                    THEN [Response(route) EXCEPT
                              !.status = 200, !.ran = TRUE, !.docId = id,
                              !.users = {SelectMinusPassword(users[id])}]
                    ELSE Fail(route, 404, "User not found"))
       /\ UNCHANGED <<users, tasks, projects, nextId, held, now, pending>>

GetUsers(authHeader) ==
    LET route == "GET /api/users"
        auth == authenticateToken(authHeader, now)
    IN
    \/ Rejected(route, auth, authHeader)
    \/ /\ auth.next
       /\ res' = Send(route, auth, authHeader,
                    [Response(route) EXCEPT
                         !.status = 200, !.ran = TRUE,
                         !.users = { SelectMinusPassword(u) :
                                       u \in { v \in Range(users) : v.isActive } }])
       /\ UNCHANGED <<users, tasks, projects, nextId, held, now, pending>>

(***************************************************************************)
(* The Task collection.                                                    *)
(***************************************************************************)
\* comments holds the user references of the comments
TaskFields ==
    {"title", "description", "status", "priority", "assignedTo", "createdBy",
     "project", "estimatedHours", "actualHours", "comments", "createdAt",
     "updatedAt"}

TaskStatuses == {"todo", "in-progress", "review", "completed"}
TaskPriorities == {"low", "medium", "high", "urgent"}

\* new Task(data): fields outside the schema are dropped, defaults filled in
NewTask(id, data, t) ==
    Spread([_id |-> id, status |-> "todo", priority |-> "medium",
            actualHours |-> 0, comments |-> {}, createdAt |-> t, updatedAt |-> t],
           Restrict(data, TaskFields))

Required(doc, path) == path \in DOMAIN doc /\ doc[path] # ""

\* the schema's validators on the paths of doc
TaskPathsValid(doc) ==
    /\ "status" \in DOMAIN doc => doc.status \in TaskStatuses
    /\ "priority" \in DOMAIN doc => doc.priority \in TaskPriorities
    /\ "estimatedHours" \in DOMAIN doc => doc.estimatedHours >= 0
    /\ "actualHours" \in DOMAIN doc => doc.actualHours >= 0

\* validation of a new document by save()
TaskValid(doc) ==
    /\ Required(doc, "title")
    /\ Required(doc, "description")
    /\ Required(doc, "project")
    /\ "createdBy" \in DOMAIN doc
    /\ TaskPathsValid(doc)

TaskBase == [title |-> "T", description |-> "D", project |-> "p1"]

TaskBodies ==
    { TaskBase,
      Spread(TaskBase, [status |-> "completed", createdBy |-> 1]),
      Spread(TaskBase, [project |-> "p2", assignedTo |-> 1, createdBy |-> 2,
                        comments |-> {1}]),
      Spread(TaskBase, [status |-> "bogus"]),
      [description |-> "D", project |-> "p1"] }

\* the task of a response, with assignedTo and createdBy populated
TaskUsers(doc) ==
    Populate(Ref(doc, "assignedTo") \cup Ref(doc, "createdBy"), NameFields)

(***************************************************************************)
(* POST /api/tasks                                                         *)
(***************************************************************************)
\* { createdBy: req.user.userId, updatedAt: new Date(), ...req.body }
TaskData_BodyLast(body, user, t) ==
    Spread([createdBy |-> user.userId, updatedAt |-> t], body)

\* { ...req.body, createdBy: req.user.userId, updatedAt: new Date() }
TaskData(body, user, t) ==
    Spread(body, [createdBy |-> user.userId, updatedAt |-> t])

PostTask(authHeader, body) ==
    LET route == "POST /api/tasks"
        auth == authenticateToken(authHeader, now)
        task == NewTask(nextId, TaskData(body, auth.user, now), now)
    IN
    \/ Rejected(route, auth, authHeader)
    \/ /\ auth.next
       /\ IF auth.user = NoUser
          THEN /\ res' = Send(route, auth, authHeader,
                            Caught(route, "Failed to create task", TypeError))
               /\ UNCHANGED <<tasks, nextId>>
          ELSE IF ~TaskValid(task)
          THEN /\ res' = Send(route, auth, authHeader,
                            Caught(route, "Failed to create task", ValidationError))
               /\ UNCHANGED <<tasks, nextId>>
          ELSE /\ nextId <= MaxDocs
               /\ tasks' = tasks \cup {task}
               /\ nextId' = nextId + 1
               /\ res' = Send(route, auth, authHeader,
                            [Response(route) EXCEPT
                                 !.status = 201, !.ran = TRUE, !.docId = task._id,
                                 !.tasks = <<task>>, !.users = TaskUsers(task)])
       /\ UNCHANGED <<users, projects, held, now, pending>>

(***************************************************************************)
(* PUT /api/tasks/:id                                                      *)
(***************************************************************************)
TaskUpdates ==
    { [status |-> "completed"],
      [priority |-> "high", createdBy |-> 2],
      [status |-> "bogus"],
      "$inc" :> [actualHours |-> -1] }

\* a req.params.id that is not the 24 hex digits of an ObjectId
BadId == 0

\* the ids a client can name: those handed out so far, one never used and
\* one that does not cast to an ObjectId
Ids == {BadId} \cup 1..nextId

\* the update operators of a body, and its plain fields, which the cast of
\* the update moves into $set
UpdateOperators == {"$inc"}

\* the bodies that hold fields only
PlainUpdates == { b \in TaskUpdates : DOMAIN b \cap UpdateOperators = {} }

SetPart(body) == Restrict(body, DOMAIN body \ UpdateOperators)

IncPart(body) ==
    IF "$inc" \in DOMAIN body THEN Restrict(body["$inc"], TaskFields) ELSE <<>>

\* $inc: each named field is raised by its amount, from 0 when unset
Inc(doc, inc) ==
    [k \in DOMAIN doc \cup DOMAIN inc |->
        IF k \in DOMAIN inc
        THEN (IF k \in DOMAIN doc THEN doc[k] ELSE 0) + inc[k]
        ELSE doc[k]]

\* findByIdAndUpdate(id, { ...req.body, updatedAt: new Date() },
\*                   { new: true, runValidators: true })
PutTask(authHeader, id, body) ==
    LET route == "PUT /api/tasks/:id"
        auth == authenticateToken(authHeader, now)
        update == Restrict(Spread(SetPart(body), [updatedAt |-> now]), TaskFields)
        found == { d \in tasks : d._id = id }
    IN
    \/ Rejected(route, auth, authHeader)
    \/ /\ auth.next
       /\ IF id = BadId
          THEN /\ res' = Send(route, auth, authHeader,
                            Caught(route, "Failed to update task", CastError))
               /\ UNCHANGED tasks
          ELSE IF ~TaskPathsValid(update)
          THEN /\ res' = Send(route, auth, authHeader,
                            Caught(route, "Failed to update task", ValidationError))
               /\ UNCHANGED tasks
          ELSE IF found = {}
          THEN /\ res' = Send(route, auth, authHeader,
                            Fail(route, 404, "Task not found"))
               /\ UNCHANGED tasks
          ELSE LET old == CHOOSE d \in found : TRUE
                   new == Inc(Spread(old, update), IncPart(body))
               IN  /\ \A k \in DOMAIN IncPart(body) : new[k] >= -MaxInc
                   /\ tasks' = (tasks \ {old}) \cup {new}
                   /\ res' = Send(route, auth, authHeader,
                                [Response(route) EXCEPT
                                     !.status = 200, !.ran = TRUE, !.docId = id,
                                     !.tasks = <<new>>, !.users = TaskUsers(new)])
       /\ UNCHANGED <<users, projects, nextId, held, now, pending>>

(***************************************************************************)
(* DELETE /api/tasks/:id                                                   *)
(***************************************************************************)
\* a delete that only an admin may perform
DeleteTask_AdminOnly(authHeader, id) ==
    LET route == "DELETE /api/tasks/:id"
        auth == authenticateToken(authHeader, now)
        found == { d \in tasks : d._id = id }
        admin == /\ auth.user.userId \in DOMAIN users
                 /\ users[auth.user.userId].role = "admin"
    IN
    \/ Rejected(route, auth, authHeader)
    \/ /\ auth.next
       /\ IF ~admin
          THEN /\ res' = Send(route, auth, authHeader,
                            Fail(route, 403, "Admin access required"))
               /\ UNCHANGED tasks
          ELSE IF id = BadId
          THEN /\ res' = Send(route, auth, authHeader,
                            Caught(route, "Failed to delete task", CastError))
               /\ UNCHANGED tasks
          ELSE IF found = {}
          THEN /\ res' = Send(route, auth, authHeader,
                            Fail(route, 404, "Task not found"))
               /\ UNCHANGED tasks
          ELSE /\ tasks' = tasks \ found
               /\ res' = Send(route, auth, authHeader,
                            [Response(route) EXCEPT
                                 !.status = 200, !.ran = TRUE, !.docId = id])
       /\ UNCHANGED <<users, projects, nextId, held, now, pending>>

DeleteTask(authHeader, id) ==
    LET route == "DELETE /api/tasks/:id"
        auth == authenticateToken(authHeader, now)
        found == { d \in tasks : d._id = id }
    IN
    \/ Rejected(route, auth, authHeader)
    \/ /\ auth.next
       /\ IF id = BadId
          THEN /\ res' = Send(route, auth, authHeader,
                            Caught(route, "Failed to delete task", CastError))
               /\ UNCHANGED tasks
          ELSE IF found = {}
          THEN /\ res' = Send(route, auth, authHeader,
                            Fail(route, 404, "Task not found"))
               /\ UNCHANGED tasks
          ELSE /\ tasks' = tasks \ found
               /\ res' = Send(route, auth, authHeader,
                            [Response(route) EXCEPT
                                 !.status = 200, !.ran = TRUE, !.docId = id])
       /\ UNCHANGED <<users, projects, nextId, held, now, pending>>

(***************************************************************************)
(* GET /api/tasks                                                          *)
(***************************************************************************)
TaskQueries ==
    { <<>>,
      [status |-> "completed", page |-> 1, limit |-> 1],
      [project |-> "p1", page |-> 2, limit |-> 1],
      [project |-> "p1", assignedTo |-> 1],
      [status |-> "completed", limit |-> 0],
      [page |-> 0] }

DefaultPage == 1
DefaultLimit == 10

\* const { status, priority, project, assignedTo, page = 1, limit = 10 } = req.query
QueryPage(query) == IF "page" \in DOMAIN query THEN query.page ELSE DefaultPage
QueryLimit(query) == IF "limit" \in DOMAIN query THEN query.limit ELSE DefaultLimit

\* if (status) filter.status = status; ...
TaskFilter(query) ==
    Restrict(query, {"status", "priority", "project", "assignedTo"})

\* Task.find(filter)...sort({ createdAt: -1 }).limit(limit * 1).skip((page - 1) * limit)
FindTasks(query) ==
    Page(SortByCreatedAtDesc({ d \in tasks : Matches(d, TaskFilter(query)) }),
         (QueryPage(query) - 1) * QueryLimit(query), QueryLimit(query))

\* Task.countDocuments(filter), one that counts a page at most
CountTasks_PageOnly(query) ==
    LET n == Cardinality({ d \in tasks : Matches(d, TaskFilter(query)) })
    IN  IF n > 1 THEN 1 ELSE n

CountTasks(query) ==
    Cardinality({ d \in tasks : Matches(d, TaskFilter(query)) })

\* the documents find resolves to, with the users populated into them
Found(query) ==
    LET found == FindTasks(query)
    IN  [query |-> query, found |-> found,
         users |-> UNION { TaskUsers(found[i]) \cup
                           Populate(found[i].comments, NameFields) :
                           i \in DOMAIN found }]

\* a number that JSON renders as null (Infinity, NaN)
NotANumber == -1

\* Math.ceil(total / limit)
Ceil(total, limit) ==
    IF limit = 0 THEN NotANumber ELSE (total + limit - 1) \div limit

\* res.json({ tasks, totalPages, currentPage, total })
TasksResponse(route, p, total) ==
    [Response(route) EXCEPT
         !.status = 200, !.ran = TRUE, !.query = p.query,
         !.tasks = p.found, !.total = total, !.users = p.users,
         !.totalPages = Ceil(total, QueryLimit(p.query))]

\* a negative skip is refused by the store
SkipRefused(query) == (QueryPage(query) - 1) * QueryLimit(query) < 0

BadValue == [name |-> "MongoServerError", code |-> 2, key |-> ""]

\* up to the await of Task.find
GetTasksFind(authHeader, query) ==
    LET route == "GET /api/tasks"
        auth == authenticateToken(authHeader, now)
    IN
    \/ Rejected(route, auth, authHeader)
    \/ /\ auth.next
       /\ IF auth.status # 0
          THEN /\ res' = Send(route, auth, authHeader, Response(route))
               /\ UNCHANGED pending
          ELSE IF SkipRefused(query)
          THEN /\ res' = Send(route, auth, authHeader,
                            [Caught(route, "Failed to fetch tasks", BadValue)
                             EXCEPT !.query = query])
               /\ UNCHANGED pending
          ELSE /\ BagCardinality(pending) < MaxPending
               /\ pending' = pending (+) SetToBag({
                      [op |-> "tasks", authHeader |-> authHeader,
                       body |-> Found(query)] })
               /\ UNCHANGED res
       /\ UNCHANGED <<users, tasks, projects, nextId, held, now>>

\* from the await of Task.find to the response
GetTasksCount(p) ==
    LET route == "GET /api/tasks" IN
    /\ BagIn(p, pending) /\ p.op = "tasks"
    /\ pending' = pending (-) SetToBag({p})
    /\ res' = [TasksResponse(route, p.body, CountTasks(p.body.query))
                  EXCEPT !.presented = BearerToken(p.authHeader)]
    /\ UNCHANGED <<users, tasks, projects, nextId, held, now>>

\* the handler when no other request is served between its find and its count
GetTasks(authHeader, query) ==
    LET route == "GET /api/tasks"
        auth == authenticateToken(authHeader, now)
    IN
    \/ Rejected(route, auth, authHeader)
    \/ /\ auth.next
       /\ res' = Send(route, auth, authHeader,
                    IF SkipRefused(query)
                    THEN [Caught(route, "Failed to fetch tasks", BadValue)
                          EXCEPT !.query = query]
                    ELSE TasksResponse(route, Found(query), CountTasks(query)))
       /\ UNCHANGED <<users, tasks, projects, nextId, held, now, pending>>

(***************************************************************************)
(* The Project collection.                                                 *)
(***************************************************************************)
ProjectFields ==
    {"name", "description", "status", "owner", "team", "startDate", "progress",
     "createdAt", "updatedAt"}

ProjectStatuses == {"planning", "active", "on-hold", "completed", "cancelled"}

NewProject(id, data, t) ==
    Spread([_id |-> id, status |-> "planning", team |-> {}, progress |-> 0,
            createdAt |-> t, updatedAt |-> t],
           Restrict(data, ProjectFields))

ProjectValid(doc) ==
    /\ Required(doc, "name")
    /\ Required(doc, "description")
    /\ "owner" \in DOMAIN doc
    /\ "startDate" \in DOMAIN doc
    /\ doc.status \in ProjectStatuses
    /\ doc.progress >= 0 /\ doc.progress <= 100

ProjectBase == [name |-> "P", description |-> "D", startDate |-> 0]

ProjectBodies ==
    { Spread(ProjectBase, [status |-> "active", team |-> {1}]),
      Spread(ProjectBase, [owner |-> 2]),
      Spread(ProjectBase, [progress |-> 150]),
      [name |-> "P", description |-> "D"] }

ProjectUsers(doc) == Populate(Ref(doc, "owner") \cup doc.team, NameFields)

\* { ...req.body, owner: req.user.userId, updatedAt: new Date() }
ProjectData(body, user, t) ==
    Spread(body, [owner |-> user.userId, updatedAt |-> t])

(***************************************************************************)
(* GET /api/projects, POST /api/projects                                   *)
(***************************************************************************)
GetProjects(authHeader) ==
    LET route == "GET /api/projects"
        auth == authenticateToken(authHeader, now)
    IN
    \/ Rejected(route, auth, authHeader)
    \/ /\ auth.next
       /\ res' = Send(route, auth, authHeader,
                    [Response(route) EXCEPT
                         !.status = 200, !.ran = TRUE,
                         !.total = Cardinality(projects),
                         !.users = UNION { ProjectUsers(d) : d \in projects }])
       /\ UNCHANGED <<users, tasks, projects, nextId, held, now, pending>>

PostProject(authHeader, body) ==
    LET route == "POST /api/projects"
        auth == authenticateToken(authHeader, now)
        project == NewProject(nextId, ProjectData(body, auth.user, now), now)
    IN
    \/ Rejected(route, auth, authHeader)
    \/ /\ auth.next
       /\ IF auth.user = NoUser
          THEN /\ res' = Send(route, auth, authHeader,
                            Caught(route, "Failed to create project", TypeError))
               /\ UNCHANGED <<projects, nextId>>
          ELSE IF ~ProjectValid(project)
          THEN /\ res' = Send(route, auth, authHeader,
                            Caught(route, "Failed to create project", ValidationError))
               /\ UNCHANGED <<projects, nextId>>
          ELSE /\ nextId <= MaxDocs
               /\ projects' = projects \cup {project}
               /\ nextId' = nextId + 1
               /\ res' = Send(route, auth, authHeader,
                            [Response(route) EXCEPT
                                 !.status = 201, !.ran = TRUE, !.docId = project._id,
                                 !.users = ProjectUsers(project)])
       /\ UNCHANGED <<users, tasks, held, now, pending>>

(***************************************************************************)
(* GET /api/analytics/dashboard                                            *)
(***************************************************************************)
RecentLimit == 5

\* the decimal digits of a natural number
RECURSIVE Digits(_)
Digits(n) ==
    LET d == <<"0", "1", "2", "3", "4", "5", "6", "7", "8", "9">>[(n % 10) + 1]
    IN  IF n < 10 THEN <<d>> ELSE Append(Digits(n \div 10), d)

\* a value of the JSON body with its type
JsonNumber(n) == [type |-> "number", text |-> Digits(n)]
JsonString(text) == [type |-> "string", text |-> text]

\* (num / den).toFixed(1), the fraction cut off instead of rounded
toFixed1_Truncate(num, den) ==
    LET n == (10 * num) \div den
    IN  Digits(n \div 10) \o <<".">> \o Digits(n % 10)

\* (num / den).toFixed(1) for num, den >= 0: the nearest number of tenths,
\* the larger one of two equally near, as a string with one decimal.  For
\* the counts of the model the double num / den is nearer to the quotient
\* than to any half tenth, or is the quotient.
toFixed1(num, den) ==
    LET n == (20 * num + den) \div (2 * den)
    IN  Digits(n \div 10) \o <<".">> \o Digits(n % 10)

\* totalTasks > 0 ? (completedTasks / totalTasks * 100).toFixed(1) : 0
completionRate(completedTasks, totalTasks) ==
    IF totalTasks > 0
    THEN JsonString(toFixed1(completedTasks * 100, totalTasks))
    ELSE JsonNumber(0)

\* every document counted once, whatever its value
GroupCount_All(docs, path) ==
    [v \in { d[path] : d \in docs } |-> Cardinality(docs)]

\* aggregate([{ $group: { _id: '$path', count: { $sum: 1 } } }]): one entry
\* for each value that occurs
GroupCount(docs, path) ==
    [v \in { d[path] : d \in docs } |->
        Cardinality({ d \in docs : d[path] = v })]

GetDashboard(authHeader) ==
    LET route == "GET /api/analytics/dashboard"
        auth == authenticateToken(authHeader, now)
        recentTasks == Page(SortByCreatedAtDesc(tasks), 0, RecentLimit)
        totalTasks == Cardinality(tasks)
        completedTasks == Cardinality({ d \in tasks : d.status = "completed" })
    IN
    \/ Rejected(route, auth, authHeader)
    \/ /\ auth.next
       /\ res' = Send(route, auth, authHeader,
                    [Response(route) EXCEPT
                         !.status = 200, !.ran = TRUE,
                         !.total = totalTasks,
                         !.summary =
                             [totalTasks |-> totalTasks,
                              completedTasks |-> completedTasks,
                              totalProjects |-> Cardinality(projects),
                              activeProjects |->
                                  Cardinality({ d \in projects : d.status = "active" }),
                              completionRate |->
                                  completionRate(completedTasks, totalTasks)],
                         !.charts =
                             [tasksByStatus |-> GroupCount(tasks, "status"),
                              tasksByPriority |-> GroupCount(tasks, "priority")],
                         !.tasks = recentTasks,
                         !.users = UNION { Populate(Ref(recentTasks[i], "assignedTo"),
                                                    {"firstName", "lastName"}) :
                                            i \in DOMAIN recentTasks }])
       /\ UNCHANGED <<users, tasks, projects, nextId, held, now, pending>>

\* the seven queries that Promise.all starts together
SubQueries ==
    {"totalTasks", "completedTasks", "totalProjects", "activeProjects",
     "tasksByStatus", "tasksByPriority", "recentTasks"}

\* the count of completed tasks taken without its filter
SubQuery_Unfiltered(name, taskDocs, projectDocs) ==
    CASE name = "totalTasks" -> Cardinality(taskDocs)
      [] name = "completedTasks" -> Cardinality(taskDocs)
      [] name = "totalProjects" -> Cardinality(projectDocs)
      [] name = "activeProjects" ->
             Cardinality({ d \in projectDocs : d.status = "active" })
      [] name = "tasksByStatus" -> GroupCount(taskDocs, "status")
      [] name = "tasksByPriority" -> GroupCount(taskDocs, "priority")
      [] name = "recentTasks" -> Page(SortByCreatedAtDesc(taskDocs), 0, RecentLimit)

\* what one of the queries resolves to, run on the collections as they are
SubQuery(name, taskDocs, projectDocs) ==
    CASE name = "totalTasks" -> Cardinality(taskDocs)
      [] name = "completedTasks" ->
             Cardinality({ d \in taskDocs : d.status = "completed" })
      [] name = "totalProjects" -> Cardinality(projectDocs)
      [] name = "activeProjects" ->
             Cardinality({ d \in projectDocs : d.status = "active" })
      [] name = "tasksByStatus" -> GroupCount(taskDocs, "status")
      [] name = "tasksByPriority" -> GroupCount(taskDocs, "priority")
      [] name = "recentTasks" -> Page(SortByCreatedAtDesc(taskDocs), 0, RecentLimit)

\* res.json({ summary, charts, recentTasks }) from the seven results
DashboardResponse(route, got) ==
    [Response(route) EXCEPT
         !.status = 200, !.ran = TRUE,
         !.total = got.totalTasks,
         !.summary =
             [totalTasks |-> got.totalTasks,
              completedTasks |-> got.completedTasks,
              totalProjects |-> got.totalProjects,
              activeProjects |-> got.activeProjects,
              completionRate |->
                  completionRate(got.completedTasks, got.totalTasks)],
         !.charts =
             [tasksByStatus |-> got.tasksByStatus,
              tasksByPriority |-> got.tasksByPriority],
         !.tasks = got.recentTasks,
         !.users = UNION { Populate(Ref(got.recentTasks[i], "assignedTo"),
                                    {"firstName", "lastName"}) :
                            i \in DOMAIN got.recentTasks }]

\* up to the await of Promise.all: the queries are sent, none has run yet.
\* got: the results so far; seen: the states of the collections that the
\* queries so far have run on
DashboardStart(authHeader) ==
    LET route == "GET /api/analytics/dashboard"
        auth == authenticateToken(authHeader, now)
    IN
    \/ Rejected(route, auth, authHeader)
    \/ /\ auth.next
       /\ BagCardinality(pending) < MaxDashboards
       /\ pending' = pending (+) SetToBag({
              [op |-> "dashboard", authHeader |-> authHeader,
               got |-> <<>>, seen |-> {}] })
       /\ UNCHANGED <<users, tasks, projects, nextId, held, now, res>>

\* the database runs one of the queries not yet run
DashboardQuery(p, name) ==
    /\ BagIn(p, pending) /\ p.op = "dashboard"
    /\ name \in SubQueries \ DOMAIN p.got
    /\ pending' = (pending (-) SetToBag({p})) (+) SetToBag({
           [p EXCEPT
                !.got = [n \in DOMAIN p.got \cup {name} |->
                            IF n = name THEN SubQuery(name, tasks, projects)
                            ELSE p.got[n]],
                !.seen = @ \cup {<<tasks, projects>>}] })
    /\ UNCHANGED <<users, tasks, projects, nextId, held, now, res>>

\* all seven have resolved: the response is sent
DashboardRespond(p) ==
    LET route == "GET /api/analytics/dashboard" IN
    /\ BagIn(p, pending) /\ p.op = "dashboard"
    /\ DOMAIN p.got = SubQueries
    /\ pending' = pending (-) SetToBag({p})
    /\ res' = [DashboardResponse(route, p.got)
                  EXCEPT !.presented = BearerToken(p.authHeader)]
    /\ UNCHANGED <<users, tasks, projects, nextId, held, now>>

(***************************************************************************)
(* The clock.  The response on record is the one sent at the present time. *)
(***************************************************************************)
Tick ==
    /\ now + TickHours <= MaxTime
    /\ now' = now + TickHours
    /\ res' = Response("none")
    /\ UNCHANGED <<users, tasks, projects, nextId, held, pending>>

Init ==
    /\ users = <<>>
    /\ tasks = {}
    /\ projects = {}
    /\ nextId = 1
    /\ held = NoToken
    /\ now = 0
    /\ pending = EmptyBag
    /\ res = Response("none")
    /\ limiter = NoHits /\ twin = NoTwin /\ app = NoApp

\* the state after al has registered at hour 0
InitSeeded ==
    LET al == NewUser(1, RegisterBody(<<"a", "l">>, <<"a", "@", "x">>,
                                      GoodPassword, FirstName),
                      bcryptHash(GoodPassword))
    IN  /\ users = <<al>>
        /\ tasks = {}
        /\ projects = {}
        /\ nextId = 1
        /\ held = jwtSign(al, 0)
        /\ now = 0
        /\ pending = EmptyBag
        /\ res = Response("none")
        /\ limiter = NoHits /\ twin = NoTwin /\ app = NoApp

\* no handler is suspended: the next request is served after the last
Idle == pending = EmptyBag

(***************************************************************************)
(* Spec: every route of the API, requests served one at a time.            *)
(***************************************************************************)
Next ==
    \/ Beside /\ Idle /\ \E b \in RegisterBodies : RegisterLookup(b)
    \/ Beside /\ \E p \in BagToSet(pending) : RegisterSave(p)
    \/ Beside /\ Idle /\ \E b \in LoginBodies : Login(b)
    \/ Beside /\ Idle /\ \E h \in Headers : GetProfile(h)
    \/ Beside /\ Idle /\ \E h \in Headers : GetUsers(h)
    \/ Beside /\ Idle /\ \E h \in Headers, q \in TaskQueries : GetTasks(h, q)
    \/ Beside /\ Idle /\ nextId <= MaxApiDocs /\ \E h \in Headers, b \in TaskBodies : PostTask(h, b)
    \/ Beside /\ Idle /\ \E h \in Headers, id \in Ids, b \in TaskUpdates : PutTask(h, id, b)
    \/ Beside /\ Idle /\ \E h \in Headers, id \in Ids : DeleteTask(h, id)
    \/ Beside /\ Idle /\ \E h \in Headers : GetProjects(h)
    \/ Beside /\ Idle /\ nextId <= MaxApiDocs /\ \E h \in Headers, b \in ProjectBodies : PostProject(h, b)
    \/ Beside /\ Idle /\ \E h \in Headers : GetDashboard(h)

Spec == Init /\ [][Next]_vars

(***************************************************************************)
(* SpecReg: registrations and logins that overlap.                         *)
(***************************************************************************)
NextReg ==
    \/ Beside /\ \E b \in RegisterBodies : RegisterLookup(b)
    \/ Beside /\ \E p \in BagToSet(pending) : RegisterSave(p)
    \/ Beside /\ \E b \in LoginBodies : Login(b)
    \/ Beside /\ \E h \in Headers : GetProfile(h)
    \/ Beside /\ \E h \in Headers : GetUsers(h)

SpecReg == Init /\ [][NextReg]_vars

(***************************************************************************)
(* SpecAuth: the protected routes as the clock advances past the expiry    *)
(* of the tokens, requests served one at a time.                           *)
(***************************************************************************)
NextAuth ==
    \/ Beside /\ Idle /\ \E b \in LoginBodies : Login(b)
    \/ Beside /\ Idle /\ \E h \in Headers : GetProfile(h)
    \/ Beside /\ Idle /\ \E h \in Headers : GetUsers(h)
    \/ Beside /\ Idle /\ \E h \in Headers, q \in TaskQueries : GetTasks(h, q)
    \/ Beside /\ Idle /\ nextId <= MaxApiDocs /\ \E h \in Headers, b \in TaskBodies : PostTask(h, b)
    \/ Beside /\ Idle /\ \E h \in Headers, id \in Ids, b \in TaskUpdates : PutTask(h, id, b)
    \/ Beside /\ Idle /\ \E h \in Headers, id \in Ids : DeleteTask(h, id)
    \/ Beside /\ Idle /\ \E h \in Headers : GetProjects(h)
    \/ Beside /\ Idle /\ nextId <= MaxApiDocs /\ \E h \in Headers, b \in ProjectBodies : PostProject(h, b)
    \/ Beside /\ Idle /\ \E h \in Headers : GetDashboard(h)
    \/ Beside /\ Idle /\ Tick

SpecAuth == InitSeeded /\ [][NextAuth]_vars

(***************************************************************************)
(* SpecTasks: the task routes, a listing overlapping with writes.          *)
(***************************************************************************)
NextTasks ==
    \/ Beside /\ Idle /\ \E h \in Headers, q \in TaskQueries : GetTasksFind(h, q)
    \/ Beside /\ \E p \in BagToSet(pending) : GetTasksCount(p)
    \/ Beside /\ \E h \in Headers, b \in TaskBodies : PostTask(h, b)
    \/ Beside /\ \E h \in Headers, id \in Ids, b \in PlainUpdates : PutTask(h, id, b)
    \/ Beside /\ \E h \in Headers, id \in Ids : DeleteTask(h, id)

SpecTasks == InitSeeded /\ [][NextTasks]_vars

(***************************************************************************)
(* SpecRead: the task listing and the dashboard over stores of up to       *)
(* MaxSeed tasks created at different hours, no write being served.        *)
(***************************************************************************)
\* the i-th task of a store whose first c tasks are completed
SeedTask(i, c) ==
    LET createdAt == (3 * i) % SeedHours
        body == [title |-> "T", description |-> "D",
                 project |-> IF i % 2 = 0 THEN "p1" ELSE "p2",
                 status |-> IF i <= c THEN "completed"
                            ELSE <<"todo", "in-progress", "review">>[(i % 3) + 1],
                 priority |-> <<"low", "medium", "high", "urgent">>[(i % 4) + 1]]
    IN  NewTask(i, TaskData(body, [userId |-> 1], createdAt), createdAt)

SeedProject(i) ==
    NewProject(i, ProjectData(Spread(ProjectBase, [status |-> "active"]),
                              [userId |-> 1], 0), 0)

InitRead ==
    LET al == NewUser(1, RegisterBody(<<"a", "l">>, <<"a", "@", "x">>,
                                      GoodPassword, FirstName),
                      bcryptHash(GoodPassword))
    IN  \E t \in 0..MaxSeed : \E c \in 0..t :
            /\ users = <<al>>
            /\ tasks = { SeedTask(i, c) : i \in 1..t }
            /\ projects = { SeedProject(t + i) : i \in 1..(t % 2) }
            /\ nextId = t + 2
            /\ held = jwtSign(al, 0)
            /\ now = SeedHours
            /\ pending = EmptyBag
            /\ res = Response("none")
            /\ limiter = NoHits /\ twin = NoTwin /\ app = NoApp

PageQueries ==
    { Spread(f, [page |-> p, limit |-> l]) :
        f \in { <<>>, [project |-> "p1"] }, p \in 1..MaxPage, l \in {2, 5} }

NextRead ==
    \/ Beside /\ \E h \in Headers, q \in PageQueries : GetTasks(h, q)
    \/ Beside /\ \E h \in Headers : GetDashboard(h)

SpecRead == InitRead /\ [][NextRead]_vars

(***************************************************************************)
(* SpecProfile: the user routes with the tokens of two registered users,   *)
(* the record of the second of them still stored or removed from the       *)
(* collection since.                                                       *)
(***************************************************************************)
InitProfile ==
    LET al == NewUser(1, RegisterBody(<<"a", "l">>, <<"a", "@", "x">>,
                                      GoodPassword, FirstName),
                      bcryptHash(GoodPassword))
        bo == NewUser(2, RegisterBody(<<"b", "o">>, <<"b", "@", "x">>,
                                      OtherPassword, FirstName),
                      bcryptHash(OtherPassword))
    IN  /\ users \in { <<al, bo>>, <<al>> }
        /\ tasks = {}
        /\ projects = {}
        /\ nextId = 1
        /\ held \in { jwtSign(al, 0), jwtSign(bo, 0) }
        /\ now = 0
        /\ pending = EmptyBag
        /\ res = Response("none")
        /\ limiter = NoHits /\ twin = NoTwin /\ app = NoApp

NextProfile ==
    \/ Beside /\ \E b \in LoginBodies : Login(b)
    \/ Beside /\ \E h \in Headers : GetProfile(h)
    \/ Beside /\ \E h \in Headers : GetUsers(h)
    \/ Beside /\ Tick

SpecProfile == InitProfile /\ [][NextProfile]_vars

(***************************************************************************)
(* SpecRoles: every protected request served twice from the same store,    *)
(* the stored role of the caller changed in between.  twin holds the       *)
(* request, the store it was first served from and the outcome of each     *)
(* run: phase 1 after the first run, 2 once the store is put back with     *)
(* the other role, 3 after the second run.                                 *)
(***************************************************************************)
UserRoles == {"user", "admin", "manager"}

\* al, the caller, and bo, an admin who created the one stored task
InitRoles ==
    LET al == NewUser(1, RegisterBody(<<"a", "l">>, <<"a", "@", "x">>,
                                      GoodPassword, FirstName),
                      bcryptHash(GoodPassword))
        bo == NewUser(2, RegisterBody(<<"b", "o">>, <<"b", "@", "x">>,
                                      OtherPassword, FirstName),
                      bcryptHash(OtherPassword))
    IN  /\ users = <<al, [bo EXCEPT !.role = "admin"]>>
        /\ tasks = { NewTask(1, TaskData(TaskBase, [userId |-> 2], 0), 0) }
        /\ projects = {}
        /\ nextId = 2
        /\ held = jwtSign(al, 0)
        /\ now = 0
        /\ pending = EmptyBag
        /\ res = Response("none")
        /\ limiter = NoHits /\ twin = NoTwin /\ app = NoApp

\* the request as the caller sends it, with the token held
Caller == <<"Bearer", held>>

Outcome(r, u, t, p) == [res |-> r, users |-> u, tasks |-> t, projects |-> p]

\* the run just made is the first or the second of the two runs of a request
Twin(name, args) ==
    \/ /\ twin.phase = 0
       /\ twin' = [phase |-> 1,
                   op |-> [name |-> name, args |-> args],
                   before |-> [users |-> users, tasks |-> tasks,
                               projects |-> projects, nextId |-> nextId],
                   first |-> Outcome(res', users', tasks', projects'),
                   second |-> <<>>]
    \/ /\ twin.phase = 2
       /\ twin.op.name = name /\ twin.op.args = args
       /\ twin' = [twin EXCEPT
                       !.phase = 3,
                       !.second = Outcome(res', users', tasks', projects')]

\* the store put back as it was, but for the caller's role
SwapRole ==
    /\ twin.phase = 1
    /\ \E role \in UserRoles \ {twin.before.users[held.userId].role} :
           users' = [twin.before.users EXCEPT ![held.userId].role = role]
    /\ tasks' = twin.before.tasks
    /\ projects' = twin.before.projects
    /\ nextId' = twin.before.nextId
    /\ res' = Response("none")
    /\ twin' = [twin EXCEPT !.phase = 2]
    /\ UNCHANGED <<held, now, pending, limiter, app>>

\* the comparison is over; the service goes on from the second run
Done ==
    /\ twin.phase = 3
    /\ twin' = NoTwin
    /\ res' = Response("none")
    /\ UNCHANGED <<users, tasks, projects, nextId, held, now, pending, limiter, app>>

NextRoles ==
    \/ UNCHANGED <<limiter, app>> /\ GetProfile(Caller) /\ Twin("GetProfile", <<>>)
    \/ UNCHANGED <<limiter, app>> /\ GetUsers(Caller) /\ Twin("GetUsers", <<>>)
    \/ UNCHANGED <<limiter, app>> /\ \E q \in TaskQueries : GetTasks(Caller, q) /\ Twin("GetTasks", <<q>>)
    \/ UNCHANGED <<limiter, app>> /\ \E b \in TaskBodies : PostTask(Caller, b) /\ Twin("PostTask", <<b>>)
    \/ UNCHANGED <<limiter, app>> /\ \E id \in Ids, b \in PlainUpdates : PutTask(Caller, id, b) /\ Twin("PutTask", <<id, b>>)
    \/ UNCHANGED <<limiter, app>> /\ \E id \in Ids : DeleteTask(Caller, id) /\ Twin("DeleteTask", <<id>>)
    \/ UNCHANGED <<limiter, app>> /\ GetProjects(Caller) /\ Twin("GetProjects", <<>>)
    \/ UNCHANGED <<limiter, app>> /\ \E b \in ProjectBodies : PostProject(Caller, b) /\ Twin("PostProject", <<b>>)
    \/ UNCHANGED <<limiter, app>> /\ GetDashboard(Caller) /\ Twin("GetDashboard", <<>>)
    \/ SwapRole
    \/ Done

SpecRoles == InitRoles /\ [][NextRoles]_vars

(***************************************************************************)
(* SpecDash: the dashboard, its queries overlapping with the creation,     *)
(* the update and the deletion of tasks.                                   *)
(***************************************************************************)
DashUpdate == [status |-> "completed"]

\* the dashboard answered
Dashboard == res.route = "GET /api/analytics/dashboard" /\ res.status = 200

\* the dashboard is asked for again only after a write: asked for twice on
\* the same store it answers the same
NextDash ==
    \/ Beside /\ ~Dashboard /\ DashboardStart(<<"Bearer", held>>)
    \/ Beside /\ \E p \in BagToSet(pending), name \in SubQueries : DashboardQuery(p, name)
    \/ Beside /\ \E p \in BagToSet(pending) : DashboardRespond(p)
    \/ Beside /\ nextId <= MaxApiDocs /\ PostTask(<<"Bearer", held>>, TaskBase)
    \/ Beside /\ \E id \in 1..nextId : PutTask(<<"Bearer", held>>, id, DashUpdate)
    \/ Beside /\ \E id \in 1..nextId : DeleteTask(<<"Bearer", held>>, id)

SpecDash == InitSeeded /\ [][NextDash]_vars

(***************************************************************************)
(* SpecGrant: every route of the API, requests served one at a time, the   *)
(* registrations asking for a role.                                        *)
(***************************************************************************)
RoleBodies ==
    { Spread(RegisterBody(<<"a", "l">>, <<"a", "@", "x">>, GoodPassword, FirstName),
             [role |-> "admin"]),
      Spread(RegisterBody(<<"b", "o">>, <<"b", "@", "x">>, OtherPassword, FirstName),
             [role |-> "manager", isActive |-> FALSE]),
      RegisterBody(<<"b", "o">>, <<"a", "@", "x">>, GoodPassword, FirstName) }

NextGrant ==
    \/ Beside /\ Idle /\ \E b \in RoleBodies : RegisterLookup(b)
    \/ Beside /\ \E p \in BagToSet(pending) : RegisterSave(p)
    \/ Beside /\ Idle /\ \E b \in LoginBodies : Login(b)
    \/ Beside /\ Idle /\ \E h \in Headers : GetProfile(h)
    \/ Beside /\ Idle /\ \E h \in Headers : GetUsers(h)
    \/ Beside /\ Idle /\ \E h \in Headers, q \in TaskQueries : GetTasks(h, q)
    \/ Beside /\ Idle /\ nextId <= MaxApiDocs /\ \E h \in Headers, b \in TaskBodies : PostTask(h, b)
    \/ Beside /\ Idle /\ \E h \in Headers, id \in Ids, b \in TaskUpdates : PutTask(h, id, b)
    \/ Beside /\ Idle /\ \E h \in Headers, id \in Ids : DeleteTask(h, id)
    \/ Beside /\ Idle /\ \E h \in Headers : GetProjects(h)
    \/ Beside /\ Idle /\ nextId <= MaxApiDocs /\ \E h \in Headers, b \in ProjectBodies : PostProject(h, b)
    \/ Beside /\ Idle /\ \E h \in Headers : GetDashboard(h)

SpecGrant == Init /\ [][NextGrant]_vars

(***************************************************************************)
(* SpecLogin: logins as the clock advances, with al and bo registered, bo   *)
(* active or deactivated since, and a task that al created.                *)
(***************************************************************************)
InitLogin ==
    LET al == NewUser(1, RegisterBody(<<"a", "l">>, <<"a", "@", "x">>,
                                      GoodPassword, FirstName),
                      bcryptHash(GoodPassword))
        bo == NewUser(2, RegisterBody(<<"b", "o">>, <<"b", "@", "x">>,
                                      OtherPassword, FirstName),
                      bcryptHash(OtherPassword))
    IN  /\ users \in { <<al, bo>>, <<al, [bo EXCEPT !.isActive = FALSE]>> }
        /\ tasks = { NewTask(1, TaskData(TaskBase, [userId |-> 1], 0), 0) }
        /\ projects = {}
        /\ nextId = 2
        /\ held \in { NoToken, jwtSign(al, 0) }
        /\ now = 0
        /\ pending = EmptyBag
        /\ res = Response("none")
        /\ limiter = NoHits /\ twin = NoTwin /\ app = NoApp

NextLogin ==
    \/ Beside /\ \E b \in LoginBodies : Login(b)
    \/ Beside /\ \E h \in Headers : GetProfile(h)
    \/ Beside /\ Tick

SpecLogin == InitLogin /\ [][NextLogin]_vars

(***************************************************************************)
(* The front end: ApiService.request, AuthProvider, and what App renders.  *)
(* One call is in flight at a time: App shows the progress bar while       *)
(* loading, the LoginForm (its button disabled while it submits) while     *)
(* there is no user, and MainApp with its logout button otherwise.         *)
(***************************************************************************)
\* response.ok
Ok(status) == status >= 200 /\ status <= 299

\* !!user
isAuthenticated(a) == a.user # NoDoc

\* fetch resolved and response.json() parsed: the call holds the body
Answered(call, r) ==
    [call EXCEPT
         !.stage = "answered",
         !.ok = Ok(r.status),
         !.data = [token |-> r.issued,
                   user |-> IF r.users = {} THEN NoDoc
                            ELSE CHOOSE u \in r.users : TRUE]]

\* the request as ApiService sends it
Request(kind, body) ==
    [NoCall EXCEPT !.kind = kind, !.stage = "sent", !.body = body,
                   !.token = app.token]

\* useEffect(..., []): with a token stored the profile is asked for
Mount ==
    /\ ~app.mounted
    /\ app' = IF app.token # NoToken
              THEN [app EXCEPT !.mounted = TRUE, !.call = Request("profile", <<>>)]
              ELSE [app EXCEPT !.mounted = TRUE, !.loading = FALSE]
    /\ UNCHANGED <<users, tasks, projects, nextId, held, now, pending, res,
                   limiter, twin>>

\* handleSubmit of the LoginForm: login(credentials) or register(userData)
Submit(kind, body) ==
    /\ app.mounted /\ ~app.loading /\ ~isAuthenticated(app)
    /\ ~app.submitting /\ app.call = NoCall
    /\ app' = [app EXCEPT !.submitting = TRUE, !.call = Request(kind, body)]
    /\ UNCHANGED <<users, tasks, projects, nextId, held, now, pending, res,
                   limiter, twin>>

\* the server serves the call in flight
ServeProfile ==
    /\ app.call.kind = "profile" /\ app.call.stage = "sent"
    /\ GetProfile(<<"Bearer", app.call.token>>)
    /\ app' = [app EXCEPT !.call = Answered(@, res')]
    /\ UNCHANGED <<limiter, twin>>

ServeLogin ==
    /\ app.call.kind = "login" /\ app.call.stage = "sent"
    /\ Login(app.call.body)
    /\ app' = [app EXCEPT !.call = Answered(@, res')]
    /\ UNCHANGED <<limiter, twin>>

ServeRegister ==
    /\ app.call.kind = "register" /\ app.call.stage = "sent"
    /\ RegisterLookup(app.call.body)
    /\ app' = [app EXCEPT !.call = IF pending' = pending THEN Answered(@, res')
                                   ELSE [@ EXCEPT !.stage = "serving"]]
    /\ UNCHANGED <<limiter, twin>>

ServeRegisterSave ==
    /\ app.call.kind = "register" /\ app.call.stage = "serving"
    /\ \E p \in BagToSet(pending) : RegisterSave(p)
    /\ app' = [app EXCEPT !.call = Answered(@, res')]
    /\ UNCHANGED <<limiter, twin>>

\* fetch rejects: the server is not reached
NetworkFail ==
    /\ app.call.stage = "sent"
    /\ app' = [app EXCEPT !.call.stage = "answered", !.call.ok = FALSE]
    /\ UNCHANGED <<users, tasks, projects, nextId, held, now, pending, res,
                   limiter, twin>>

\* .then(userData => setUser(userData))
ProfileThen ==
    /\ app.call.kind = "profile" /\ app.call.stage = "answered" /\ app.call.ok
    /\ app' = [app EXCEPT !.user = app.call.data.user, !.call.stage = "settled"]
    /\ UNCHANGED <<users, tasks, projects, nextId, held, now, pending, res,
                   limiter, twin>>

\* a catch that leaves the token in localStorage
ProfileCatch_KeepToken ==
    /\ app.call.kind = "profile" /\ app.call.stage = "answered" /\ ~app.call.ok
    /\ app' = [app EXCEPT !.call.stage = "settled"]
    /\ UNCHANGED <<users, tasks, projects, nextId, held, now, pending, res,
                   limiter, twin>>

\* .catch(() => { localStorage.removeItem('token'); })
ProfileCatch ==
    /\ app.call.kind = "profile" /\ app.call.stage = "answered" /\ ~app.call.ok
    /\ app' = [app EXCEPT !.token = NoToken, !.call.stage = "settled"]
    /\ UNCHANGED <<users, tasks, projects, nextId, held, now, pending, res,
                   limiter, twin>>

\* .finally(() => setLoading(false))
ProfileFinally ==
    /\ app.call.kind = "profile" /\ app.call.stage = "settled"
    /\ app' = [app EXCEPT !.loading = FALSE, !.call = NoCall]
    /\ UNCHANGED <<users, tasks, projects, nextId, held, now, pending, res,
                   limiter, twin>>

\* login, register: localStorage.setItem('token', response.token);
\* setUser(response.user)
FormThen ==
    /\ app.call.kind \in {"login", "register"}
    /\ app.call.stage = "answered" /\ app.call.ok
    /\ app' = [app EXCEPT !.token = app.call.data.token,
                          !.user = app.call.data.user,
                          !.call.stage = "settled"]
    /\ UNCHANGED <<users, tasks, projects, nextId, held, now, pending, res,
                   limiter, twin>>

\* the error is thrown on to handleSubmit, which shows it
FormCatch ==
    /\ app.call.kind \in {"login", "register"}
    /\ app.call.stage = "answered" /\ ~app.call.ok
    /\ app' = [app EXCEPT !.call.stage = "settled"]
    /\ UNCHANGED <<users, tasks, projects, nextId, held, now, pending, res,
                   limiter, twin>>

\* handleSubmit's finally
FormFinally ==
    /\ app.call.kind \in {"login", "register"} /\ app.call.stage = "settled"
    /\ app' = [app EXCEPT !.submitting = FALSE, !.call = NoCall]
    /\ UNCHANGED <<users, tasks, projects, nextId, held, now, pending, res,
                   limiter, twin>>

\* the logout button of MainApp
Logout ==
    /\ app.mounted /\ ~app.loading /\ isAuthenticated(app)
    /\ app' = [app EXCEPT !.token = NoToken, !.user = NoDoc]
    /\ UNCHANGED <<users, tasks, projects, nextId, held, now, pending, res,
                   limiter, twin>>

(***************************************************************************)
(* SpecFront: the front end started with nothing in localStorage, with     *)
(* al's token, with a token the server refuses, and with the token of a    *)
(* user whose record is gone.  SpecFrontLive: every call in flight is      *)
(* answered or fails, and every promise callback runs.                     *)
(***************************************************************************)
FormLogins ==
    { [username |-> <<"a", "l">>, password |-> GoodPassword],
      [username |-> <<"a", "l">>, password |-> OtherPassword] }

FormRegisters ==
    { RegisterBody(<<"a", "l">>, <<"a", "@", "x">>, GoodPassword, FirstName),
      RegisterBody(<<"b", "o">>, <<"b", "@", "x">>, OtherPassword, FirstName) }

InitFront ==
    LET al == NewUser(1, RegisterBody(<<"a", "l">>, <<"a", "@", "x">>,
                                      GoodPassword, FirstName),
                      bcryptHash(GoodPassword))
        zed == NewUser(MaxUsers + 1,
                       RegisterBody(<<"z", "e", "d">>, <<"z", "@", "x">>,
                                    GoodPassword, FirstName),
                       bcryptHash(GoodPassword))
    IN  /\ users = <<al>>
        /\ tasks = {}
        /\ projects = {}
        /\ nextId = 1
        /\ held = NoToken
        /\ now = 0
        /\ pending = EmptyBag
        /\ res = Response("none")
        /\ limiter = NoHits /\ twin = NoTwin
        /\ \E token \in { NoToken, jwtSign(al, 0), Tampered(jwtSign(al, 0)),
                           jwtSign(zed, 0) } :
               app = [NoApp EXCEPT !.token = token]

\* the steps that are not the user's
Progress ==
    \/ Mount
    \/ ServeProfile
    \/ ServeLogin
    \/ ServeRegister
    \/ ServeRegisterSave
    \/ ProfileThen
    \/ ProfileCatch
    \/ ProfileFinally
    \/ FormThen
    \/ FormCatch
    \/ FormFinally

NextFront ==
    \/ Mount
    \/ \E b \in FormLogins : Submit("login", b)
    \/ \E b \in FormRegisters : Submit("register", b)
    \/ ServeProfile
    \/ ServeLogin
    \/ ServeRegister
    \/ ServeRegisterSave
    \/ NetworkFail
    \/ ProfileThen
    \/ ProfileCatch
    \/ ProfileFinally
    \/ FormThen
    \/ FormCatch
    \/ FormFinally
    \/ Logout

SpecFront == InitFront /\ [][NextFront]_vars

SpecFrontLive == SpecFront /\ WF_vars(Progress)

(***************************************************************************)
(* SpecLimit: the rate limiter, over a window and into the next.           *)
(***************************************************************************)
NextLimit ==
    \/ \E c \in Clients, route \in LimitedRoutes : Limiter(c, route)
    \/ LimiterTick

SpecLimit == Init /\ [][NextLimit]_vars

(***************************************************************************)
(* Properties.                                                             *)
(***************************************************************************)
ProtectedRoutes ==
    { "GET /api/users/profile", "GET /api/users", "GET /api/tasks",
      "POST /api/tasks", "PUT /api/tasks/:id", "DELETE /api/tasks/:id",
      "GET /api/projects", "POST /api/projects",
      "GET /api/analytics/dashboard" }

\* a token that was signed by the server
Genuine(token) == token.sig = "JWT_SECRET"

\* the age in hours of a token at the present time
Age(token) == now - token.iat

\* C1: on every protected route a request without a bearer token is answered
\* 401 and one whose token is malformed, tampered with or expired is answered
\* 403, and in neither case is the route handler entered.
C1_AuthRejects ==
    res.route \in ProtectedRoutes =>
        /\ res.presented = NoToken => res.status = 401 /\ ~res.ran
        /\ /\ res.presented # NoToken
           /\ ~Genuine(res.presented) \/ Age(res.presented) >= TokenLifetime
           => res.status = 403 /\ ~res.ran

\* a genuine token, expired, was refused on a protected route
C1_Witness ==
    /\ res.route = "DELETE /api/tasks/:id"
    /\ res.status = 403
    /\ Genuine(res.presented)
    /\ Age(res.presented) > TokenLifetime
    /\ tasks # {}

\* C2: a request the auth middleware rejects leaves the User, Task and Project
\* collections as they were, and its handler is not entered.
C2_RejectedTouchesNothing ==
    [][res'.via = "auth" => ~res'.ran /\ UNCHANGED <<users, tasks, projects>>]_vars

\* a write was rejected while there was something to change
C2_Witness ==
    /\ res.route \in {"PUT /api/tasks/:id", "DELETE /api/tasks/:id"}
    /\ res.via = "auth"
    /\ res.status = 403
    /\ \E d \in tasks : d._id = 1

\* C3: POST /api/tasks stores the task with createdBy equal to the userId of
\* the caller's token whatever createdBy the body carries, and POST
\* /api/projects stores the project with owner equal to it whatever owner the
\* body carries.
C3_CreatorIsCaller ==
    /\ res.route = "POST /api/tasks" /\ res.status = 201 =>
           \E d \in tasks : /\ d._id = res.docId
                            /\ d.createdBy = res.presented.userId
    /\ res.route = "POST /api/projects" /\ res.status = 201 =>
           \E d \in projects : /\ d._id = res.docId
                               /\ d.owner = res.presented.userId

\* user 1 created the task whose body named user 2 as its creator
C3_Witness ==
    /\ res.route = "POST /api/tasks"
    /\ res.status = 201
    /\ res.presented.userId = 1
    /\ \E d \in tasks : d._id = res.docId /\ d.project = "p2" /\ d.createdBy = 1

\* C7: no user object of any response, top-level or populated into a task, a
\* project or the dashboard, carries the password field.
C7_NoPasswordInResponse ==
    \A u \in res.users : "password" \notin DOMAIN u

\* the profile of a stored user was returned
C7_Witness ==
    /\ res.route = "GET /api/users/profile"
    /\ res.status = 200
    /\ \E u \in res.users : u._id = res.presented.userId /\ "email" \in DOMAIN u

\* C9: a token issued by register or login carries the id and the username of
\* its user and the time of issue; on every protected route it is accepted
\* while less than 24 hours old and answered 403 once more than 24 hours old;
\* and the token a client holds changes only by a register or login issuing a
\* new one.
C9_TokenIssued ==
    res.issued # NoToken =>
        /\ res.route \in {"POST /api/auth/register", "POST /api/auth/login"}
        /\ Genuine(res.issued)
        /\ res.issued.iat = now
        /\ res.issued.userId = res.docId
        /\ res.docId \in DOMAIN users
        /\ res.issued.username = users[res.docId].username

C9_TokenAccepted ==
    res.route \in ProtectedRoutes /\ Genuine(res.presented) =>
        /\ Age(res.presented) < TokenLifetime =>
               res.ran /\ res.via # "auth" /\ res.status \notin {401, 403}
        /\ Age(res.presented) > TokenLifetime =>
               ~res.ran /\ res.status = 403

Listed == res.route = "GET /api/tasks" /\ res.via # "auth"

StoredMatching(query) == { d \in tasks : Matches(d, TaskFilter(query)) }

\* C10 as claimed: GET /api/tasks, for any filters and any page and limit,
\* returns only tasks that match every supplied filter, at most limit of
\* them, and a total equal to the number of stored tasks that match.
C10_ListingAsClaimed ==
    Listed =>
        /\ res.status = 200
        /\ \A i \in DOMAIN res.tasks : Matches(res.tasks[i], TaskFilter(res.query))
        /\ Len(res.tasks) <= QueryLimit(res.query)
        /\ res.total = Cardinality(StoredMatching(res.query))

\* C10 as amended: GET /api/tasks with a page of at least 1 and a limit of at
\* least 1 answers 200 with only tasks that matched every supplied filter
\* when they were found, at most limit of them, and a total equal to the
\* number of stored tasks that match the filters when the handler counts,
\* also when a task is created, updated or deleted between its find and its
\* count.
C10_Listing ==
    Listed /\ QueryPage(res.query) >= 1 /\ QueryLimit(res.query) >= 1 =>
        /\ res.status = 200
        /\ \A i \in DOMAIN res.tasks : Matches(res.tasks[i], TaskFilter(res.query))
        /\ Len(res.tasks) <= QueryLimit(res.query)
        /\ res.total = Cardinality(StoredMatching(res.query))

\* a listing by status whose one task was deleted between the find and the
\* count: it is returned, and the total is that of the store without it
C10_Witness ==
    /\ Listed /\ res.status = 200
    /\ "status" \in DOMAIN res.query
    /\ QueryLimit(res.query) = 1
    /\ Len(res.tasks) = 1
    /\ res.total = 0
    /\ tasks # {}
    /\ \A d \in tasks : d._id # res.tasks[1]._id

\* C4: after any sequence of registrations and logins, overlapping ones
\* included, no two stored users share a username and no two share an email.
C4_UniqueUsers ==
    \A i, j \in DOMAIN users :
        i # j => /\ users[i].username # users[j].username
                 /\ users[i].email # users[j].email

\* two users are stored and an overlapping registration was refused by the
\* unique index at its save
C4_Witness ==
    /\ Len(users) = 2
    /\ res.route = "POST /api/auth/register"
    /\ res.thrown.code = 11000

\* the username or the email of the body is that of a stored user
Taken(b) ==
    \E v \in Range(users) :
        v.username = trim(b.username) \/ v.email = toLowerCase(b.email)

\* C5: a registration received after one with the same username or the same
\* email has succeeded is answered 400 and creates no user.
C5_SecondRegistrationFails ==
    [][\A b \in RegisterBodies :
          Taken(b) /\ RegisterLookup(b) =>
              /\ res'.route = "POST /api/auth/register"
              /\ res'.status = 400
              /\ users' = users
              /\ pending' = pending]_vars

\* the lookup found the user of an earlier registration
C5_Witness ==
    /\ res.route = "POST /api/auth/register"
    /\ res.status = 400
    /\ res.error = "User already exists"
    /\ Len(users) >= 1

\* C6: a unique-constraint violation raised at the save of a user reaches the
\* error handling middleware, and the request is answered 400 naming the
\* offending field.
C6_DuplicateReachesErrorHandler ==
    res.route = "POST /api/auth/register" /\ res.thrown.code = 11000 =>
        /\ res.via = "errorHandler"
        /\ res.status = 400
        /\ res.field = res.thrown.key
        /\ res.field \in {"username", "email"}

\* the stored user i is the one the registration body b created
RegisteredAs(i, b) ==
    NewUser(i, b, bcryptHash(b.password)) = [users[i] EXCEPT !.lastLogin = NoDate]

\* C8: once a registration has returned 201, every login with its username
\* and password is answered 200 with a token.
C8_LoginAfterRegister ==
    [][\A lb \in LoginBodies :
          /\ Login(lb)
          /\ \E i \in DOMAIN users, b \in RegisterBodies :
                 /\ RegisteredAs(i, b)
                 /\ lb.username = b.username
                 /\ lb.password = b.password
          => /\ res'.route = "POST /api/auth/login"
             /\ res'.status = 200
             /\ res'.issued # NoToken]_vars

\* the request carries a token that verifies at the present time
Authenticated(authHeader) ==
    LET auth == authenticateToken(authHeader, now)
    IN  auth.next /\ auth.status = 0

Stored(id) == \E d \in tasks : d._id = id

\* C11: DELETE /api/tasks/:id for an id that names no stored task is answered
\* 404 and leaves the task collection unchanged.
C11_DeleteMissingIs404 ==
    [][\A h \in Headers, id \in Ids :
          DeleteTask(h, id) /\ Authenticated(h) /\ ~Stored(id) =>
              res'.status = 404 /\ tasks' = tasks]_vars

\* C12: every stored task has its status and its priority in their
\* enumerated sets and no negative estimatedHours or actualHours.
C12_StoredTasksValid ==
    \A d \in tasks :
        /\ d.status \in TaskStatuses
        /\ d.priority \in TaskPriorities
        /\ "estimatedHours" \in DOMAIN d => d.estimatedHours >= 0
        /\ "actualHours" \in DOMAIN d => d.actualHours >= 0

\* C13: PUT /api/tasks/:id on a stored task leaves every other task and
\* every field of the task that the body does not supply, updatedAt apart,
\* unchanged, and when it succeeds the task has the supplied values; on an
\* id that names no task it answers 404 and the collection is unchanged.
C13_PutChangesSuppliedOnly ==
    [][\A h \in Headers, id \in Ids, b \in TaskUpdates :
          PutTask(h, id, b) /\ Authenticated(h) =>
              IF Stored(id)
              THEN LET old == CHOOSE d \in tasks : d._id = id
                       others == { d \in tasks : d._id # id }
                   IN  /\ { d \in tasks' : d._id # id } = others
                       /\ \E new \in tasks' :
                              /\ new._id = id
                              /\ DOMAIN new \ DOMAIN b = DOMAIN old \ DOMAIN b
                              /\ \A k \in DOMAIN old \ (DOMAIN b \cup {"updatedAt"}) :
                                     new[k] = old[k]
                              /\ res'.status = 200 =>
                                     /\ new.updatedAt = now
                                     /\ \A k \in DOMAIN b : k \in DOMAIN new /\ new[k] = b[k]
              ELSE res'.status = 404 /\ tasks' = tasks]_vars

\* C14: a task or project creation or a task update that fails schema
\* validation is answered 400 by the error handling middleware and stores
\* nothing.
C14_ValidationIs400 ==
    res.thrown.name = "ValidationError"
    /\ res.route \in {"POST /api/tasks", "PUT /api/tasks/:id", "POST /api/projects"}
    => /\ res.via = "errorHandler"
       /\ res.status = 400
       /\ res.error = "Validation Error"

\* the number a decimal text denotes, its decimal point dropped
RECURSIVE Tenths(_)
Tenths(text) ==
    IF text = <<>> THEN 0
    ELSE LET c == text[Len(text)]
             rest == Tenths(SubSeq(text, 1, Len(text) - 1))
         IN  IF c = "." THEN rest
             ELSE 10 * rest + (CHOOSE k \in 0..9 : Digits(k) = <<c>>)

Abs(n) == IF n < 0 THEN -n ELSE n

\* C15: the dashboard's completionRate is completedTasks / totalTasks * 100
\* to one decimal place, a nearest tenth, when totalTasks > 0, and is 0 when
\* totalTasks is 0, for the counts of the same response.
C15_CompletionRate ==
    Dashboard =>
        LET t == res.summary.totalTasks
            c == res.summary.completedTasks
            text == res.summary.completionRate.text
            n == Tenths(text)
        IN  IF t > 0
            THEN /\ Len(text) >= 3
                 /\ text[Len(text) - 1] = "."
                 /\ 2 * Abs(1000 * c - n * t) <= t
            ELSE res.summary.completionRate = JsonNumber(0)

\* 3 of 16 tasks completed: 18.75 is rendered 18.8
C15_Witness ==
    /\ Dashboard
    /\ res.summary.totalTasks = 16
    /\ res.summary.completedTasks = 3
    /\ res.summary.completionRate.text = <<"1", "8", ".", "8">>

\* a listing answered 200 for a page and a limit of at least 1
Paged ==
    /\ Listed /\ res.status = 200
    /\ QueryPage(res.query) >= 1 /\ QueryLimit(res.query) >= 1

\* the tasks of pages 1..p of a filter and a limit, in the order returned
RECURSIVE Pages(_, _, _)
Pages(filter, limit, p) ==
    IF p = 0 THEN <<>>
    ELSE Pages(filter, limit, p - 1)
         \o FindTasks(Spread(filter, [page |-> p, limit |-> limit]))

RECURSIVE SumCounts(_)
SumCounts(chart) ==
    IF DOMAIN chart = {} THEN 0
    ELSE LET v == CHOOSE w \in DOMAIN chart : TRUE
         IN  chart[v] + SumCounts([w \in DOMAIN chart \ {v} |-> chart[w]])

\* the counts of a chart are those of the stored tasks, and sum to totalTasks
CountsStored(chart, path) ==
    /\ \A v \in DOMAIN chart :
           chart[v] = Cardinality({ d \in tasks : d[path] = v })
    /\ SumCounts(chart) = res.summary.totalTasks

\* recentTasks holds the min(5, totalTasks) most recently created tasks
RecentStored ==
    LET n == Cardinality(tasks)
        recent == res.tasks
    IN  /\ res.summary.totalTasks = n
        /\ Len(recent) = IF n < 5 THEN n ELSE 5
        /\ Range(recent) \subseteq tasks
        /\ \A i, j \in DOMAIN recent :
               i < j => /\ recent[i] # recent[j]
                        /\ recent[i].createdAt >= recent[j].createdAt
        /\ \A d \in tasks \ Range(recent) :
               d.createdAt <= recent[Len(recent)].createdAt

\* C20 as claimed: the dashboard's tasksByStatus gives, for each of the four
\* status values, the number of stored tasks with it, tasksByPriority the
\* same for each of the four priority values, each set of counts sums to
\* totalTasks, and recentTasks holds the min(5, totalTasks) most recently
\* created tasks.
C20_ChartsAsClaimed ==
    Dashboard =>
        /\ DOMAIN res.charts.tasksByStatus = TaskStatuses
        /\ DOMAIN res.charts.tasksByPriority = TaskPriorities
        /\ CountsStored(res.charts.tasksByStatus, "status")
        /\ CountsStored(res.charts.tasksByPriority, "priority")
        /\ RecentStored

\* C20 as amended: tasksByStatus holds one entry for each status value that
\* some stored task has, and none for a value no task has, with the number
\* of stored tasks of that status, tasksByPriority the same for the priority
\* values, each set of counts sums to totalTasks, and recentTasks holds the
\* min(5, totalTasks) most recently created tasks.
C20_Charts ==
    Dashboard =>
        /\ DOMAIN res.charts.tasksByStatus = { d.status : d \in tasks }
        /\ DOMAIN res.charts.tasksByPriority = { d.priority : d \in tasks }
        /\ CountsStored(res.charts.tasksByStatus, "status")
        /\ CountsStored(res.charts.tasksByPriority, "priority")
        /\ RecentStored

\* sixteen tasks, all completed: the one entry of tasksByStatus counts them
\* all, and five of them are the recent ones
C20_Witness ==
    /\ Dashboard
    /\ Cardinality(tasks) = 16
    /\ DOMAIN res.charts.tasksByStatus = {"completed"}
    /\ res.charts.tasksByStatus["completed"] = 16
    /\ Cardinality(DOMAIN res.charts.tasksByPriority) = 4
    /\ Len(res.tasks) = 5

\* the requests of a client handed on in its current window
C16_HandedOn ==
    \A c \in Clients : limiter.passed[c].count <= RateLimitMax

\* a request is answered by the limiter at once: 429 past the limit
C16_RejectedAtOnce ==
    \A c \in Clients, route \in LimitedRoutes :
        Limiter(c, route) =>
            LET window == limiter.clock \div WindowMinutes
                handedOn == IF limiter.passed[c].window = window
                            THEN limiter.passed[c].count ELSE 0
            IN  /\ res'.client = c /\ res'.route = route
                /\ pending' = pending
                /\ UNCHANGED <<users, tasks, projects>>
                /\ IF handedOn >= RateLimitMax
                   THEN res'.status = 429 /\ res'.via = "limiter" /\ ~res'.ran
                   ELSE res'.via = "next"

\* C16: for each client at most 100 requests of one window are handed on to
\* route handling, on whatever route; a request beyond them is rejected at
\* once, nothing being queued, and one within them is handed on, so that
\* the count restarts when the window ends.
C16_RateLimit == []C16_HandedOn /\ [][C16_RejectedAtOnce]_vars

\* in the second window the count has restarted: a client has had 100
\* requests handed on in that window and its next one, on the health route,
\* is rejected
C16_Witness ==
    /\ limiter.clock >= WindowMinutes
    /\ limiter.passed["c1"] = [window |-> 1, count |-> RateLimitMax]
    /\ limiter.hits["c1"] = RateLimitMax + 1
    /\ res.client = "c1" /\ res.status = 429 /\ res.route = "GET /api/health"

\* C18: a token that verifies has attached to the request the userId and the
\* username it was issued for, and GET /api/users/profile called with it
\* answers 200 with the stored record of that user, without the password,
\* and no other record, or 404 when that user is no longer stored.
C18_ProfileOfTokenOwner ==
    /\ \A h \in Headers :
           LET token == BearerToken(h)
               auth == authenticateToken(h, now)
           IN  (token # NoToken /\ jwtVerify(token, now)) =>
                   /\ auth.next
                   /\ auth.user = [userId |-> token.userId,
                                   username |-> token.username]
    /\ (res.route = "GET /api/users/profile" /\ jwtVerify(res.presented, now)) =>
           LET id == res.presented.userId IN
           IF id \in DOMAIN users
           THEN /\ res.status = 200
                /\ res.users = {SelectMinusPassword(users[id])}
           ELSE /\ res.status = 404
                /\ res.users = {}

\* with two users stored, the second user's token has fetched the second
\* user's record
C18_Witness ==
    /\ Len(users) = 2
    /\ res.route = "GET /api/users/profile"
    /\ res.status = 200
    /\ res.presented.userId = 2
    /\ jwtVerify(res.presented, now)
    /\ \E u \in res.users : u._id = 2 /\ u.username = <<"b", "o">>

\* user records with the role field blanked, in a response and in the store
NoRole(records) ==
    { IF "role" \in DOMAIN u THEN [u EXCEPT !.role = ""] ELSE u : u \in records }

NoRoles(stored) == [i \in DOMAIN stored |-> [stored[i] EXCEPT !.role = ""]]

Consistent(r) ==
    LET byStatus == r.charts.tasksByStatus IN
    /\ r.summary.completedTasks <= r.summary.totalTasks
    /\ SumCounts(byStatus) = r.summary.totalTasks
    /\ SumCounts(r.charts.tasksByPriority) = r.summary.totalTasks
    /\ r.summary.completedTasks =
           IF "completed" \in DOMAIN byStatus THEN byStatus["completed"] ELSE 0
    /\ Len(r.tasks) = r.summary.totalTasks

\* what the steps of the dashboard request leave alone
C21_Frame ==
    /\ \A h \in Headers :
           DashboardStart(h) => UNCHANGED <<users, tasks, projects, nextId>>
    /\ \A p \in BagToSet(pending) :
           /\ \A name \in SubQueries :
                  DashboardQuery(p, name) =>
                      UNCHANGED <<users, tasks, projects, nextId>>
           /\ DashboardRespond(p) =>
                  /\ UNCHANGED <<users, tasks, projects, nextId>>
                  /\ res'.status = 200
                  /\ Cardinality(p.seen) = 1 => Consistent(res')

\* C21: no step of the dashboard request modifies the store, and its seven
\* queries run one by one between the writes of other requests: a response
\* whose queries all ran on one state of the collections agrees with
\* itself, and one whose queries ran on either side of a write can mix the
\* two states, as in C21_Witness.
C21_DashboardNotIsolated == [][C21_Frame]_vars

\* a task was created and completed between the count of all tasks and the
\* count of the completed ones: completedTasks exceeds totalTasks, and the
\* status counts do not sum to totalTasks
C21_Witness ==
    /\ Dashboard
    /\ res.summary.completedTasks > res.summary.totalTasks
    /\ SumCounts(res.charts.tasksByStatus) # res.summary.totalTasks

\* C22: a stored task keeps its createdBy in every step, and a task that a
\* step has created has for createdBy the userId of the token its request
\* presented, whatever the body held.
C22_CreatedByKept ==
    [][/\ \A d \in tasks, e \in tasks' :
              d._id = e._id => e.createdBy = d.createdBy
       /\ \A e \in tasks' :
              (\A d \in tasks : d._id # e._id) =>
                  /\ res'.route = "POST /api/tasks"
                  /\ e.createdBy = res'.presented.userId]_vars

GoodFor(b) ==
    { u \in Range(users) :
        /\ u.username = trim(b.username) \/ u.email = toLowerCase(b.username)
        /\ u.isActive
        /\ u.password = bcryptHash(b.password) }

\* what a login step may change and must answer
C24_Login ==
    \A b \in LoginBodies :
        Login(b) =>
            LET route == "POST /api/auth/login"
                missing == b.username = <<>> \/ b.password = <<>>
            IN  /\ UNCHANGED <<tasks, projects, nextId>>
                /\ res'.route = route
                /\ IF missing \/ GoodFor(b) = {}
                   THEN /\ users' = users
                        /\ held' = held
                        /\ res'.issued = NoToken
                        /\ res' = IF missing
                                  THEN Fail(route, 400, "Username and password required")
                                  ELSE Fail(route, 401, "Invalid credentials")
                   ELSE \E u \in GoodFor(b) :
                        /\ res'.status = 200
                        /\ res'.issued = jwtSign(u, now)
                        /\ users' = [users EXCEPT ![u._id].lastLogin = now]

\* C24: a login with a field missing, an unknown username or email, an
\* inactive user or a wrong password issues no token and leaves the store as
\* it was, lastLogin included, the last three answered with one and the same
\* 401 response; a login that succeeds changes nothing in the store but the
\* lastLogin of its user.
C24_LoginFrame == [][C24_Login]_vars

\* al logged in at hour 0; a login refused at hour 16 has issued no token and
\* left al's lastLogin at 0 and the token of hour 0 with the client
C24_Witness ==
    /\ now = TickHours
    /\ res.route = "POST /api/auth/login"
    /\ res.status = 401 /\ res.error = "Invalid credentials"
    /\ res.issued = NoToken
    /\ users[1].lastLogin = 0
    /\ ~users[2].isActive /\ users[2].lastLogin = NoDate
    /\ held = jwtSign(users[1], 0)

\* a user is set only with a token in localStorage, and once the start-up
\* call has been refused the token is gone and there is no user
C25_Session ==
    /\ isAuthenticated(app) <=> app.user # NoDoc
    /\ app.user # NoDoc => app.token # NoToken
    /\ (app.call.kind = "profile" /\ app.call.stage = "settled" /\ ~app.call.ok) =>
           app.token = NoToken /\ ~isAuthenticated(app)

\* logout clears the token and the user
C25_Logout ==
    Logout => app'.token = NoToken /\ app'.user = NoDoc /\ ~isAuthenticated(app')

\* C25: in the AuthProvider isAuthenticated holds exactly when user is set,
\* a user is set only while a token is in localStorage, logout clears both,
\* a start-up whose stored token the server refuses removes the token and
\* sets no user, and on every start-up loading becomes false and stays so.
C25_AuthProvider ==
    /\ []C25_Session
    /\ [][C25_Logout]_vars
    /\ <>[](~app.loading)

\* the start-up with a token that the server answered 403 is over: the token
\* is removed, no user is set and loading is false
C25_Witness ==
    /\ app.mounted /\ ~app.loading /\ app.call = NoCall
    /\ app.token = NoToken /\ ~isAuthenticated(app)
    /\ res.route = "GET /api/users/profile" /\ res.status = 403

====
